---- MODULE Spec2Model ----
(***************************************************************************)
(* A model of the GraphQL lexer of lexer/lexer.go.                         *)
(*                                                                         *)
(* The input is a sequence of bytes (0..255).  A Lexer is a record with    *)
(* the fields of the Go struct; every function of the source is an         *)
(* operator over that record, computed the way the source computes it.     *)
(* Scanning functions return a record [s, tok, err, panic, scanned]: the   *)
(* lexer after the call, the returned token and error, whether the call    *)
(* ended in a Go run-time panic (index out of range) instead of            *)
(* returning, and whether the input was scanned (as opposed to served      *)
(* from the peek cache).                                                   *)
(***************************************************************************)
EXTENDS Integers, Sequences, FiniteSets, TLC

VARIABLES
    lexer,      \* the Lexer object under test
    panicked,   \* a call ended in a run-time panic; the program has stopped
    call,       \* the last call the caller made: New, ReadToken, PeekToken, LastToken
    ret,        \* the token that call returned
    retErr,     \* the error that call returned (Nil when it returns none)
    scanned,    \* whether that call scanned the input
    pre,        \* the lexer as it was before that call
    pending,    \* the token of the latest PeekToken not yet followed by a ReadToken
    lastRead,   \* what the caller's most recent ReadToken returned
    prevRead,   \* what the ReadToken before that one returned
    lastGot,    \* the token of the caller's most recent ReadToken or PeekToken
    eofTok,     \* the first EOF token a ReadToken returned
    ref,        \* a second lexer over the same input on which only ReadToken is called
    frame       \* where a ReadToken that runs loop iteration by loop iteration stands

vars == <<lexer, panicked, call, ret, retErr, scanned, pre, pending,
          lastRead, prevRead, lastGot, eofTok, ref, frame>>

(***************************************************************************)
(* Bytes the source names.                                                 *)
(***************************************************************************)
TAB == 9
LF == 10
CR == 13
SPACE == 32
BANG == 33
QUOTE == 34
HASH == 35
DOLLAR == 36
AMP == 38
APOSTROPHE == 39
PARENL == 40
PARENR == 41
PLUS == 43
COMMA == 44
MINUS == 45
DOT == 46
SLASH == 47
COLON == 58
EQUALS == 61
ATSIGN == 64
BRACKETL == 91
BACKSLASH == 92
BRACKETR == 93
UNDERSCORE == 95
BRACEL == 123
PIPE == 124
BRACER == 125
BOM0 == 239
BOM1 == 187
BOM2 == 191
RuneError == 65533

Digits == 48..57
Upper == 65..90
Lower == 97..122
NameStart == {UNDERSCORE} \cup Upper \cup Lower
NameCont == NameStart \cup Digits

(***************************************************************************)
(* Strings of the source, as byte sequences.                               *)
(***************************************************************************)
TripleQuote == <<QUOTE, QUOTE, QUOTE>>
EscapedTripleQuote == <<BACKSLASH, QUOTE, QUOTE, QUOTE>>
Spread3 == <<DOT, DOT, DOT>>
EOFText == <<60, 69, 79, 70, 62>>

\* s.input[i]: the byte at 0-based index i
ByteAt(in, i) == in[i + 1]

\* s.input[a:b]
Slice(in, a, b) == SubSeq(in, a + 1, b)

IsCont(b) == b >= 128 /\ b <= 191

(***************************************************************************)
(* utf8.DecodeRuneInString(s.input[i:]) for i < len(input): the rune and   *)
(* its width in bytes; an ill-formed sequence is RuneError of width 1.     *)
(***************************************************************************)
DecodeRune(in, i) ==
    LET n  == Len(in) - i
        b0 == ByteAt(in, i)
        b1 == ByteAt(in, i + 1)
        b2 == ByteAt(in, i + 2)
        b3 == ByteAt(in, i + 3)
        bad == [r |-> RuneError, w |-> 1]
    IN  IF b0 < 128 THEN [r |-> b0, w |-> 1]
        ELSE IF b0 >= 194 /\ b0 <= 223 THEN
            IF n >= 2 /\ IsCont(b1)
            THEN [r |-> (b0 % 32) * 64 + (b1 % 64), w |-> 2] ELSE bad
        ELSE IF b0 >= 224 /\ b0 <= 239 THEN
            IF /\ n >= 3
               /\ b1 >= (IF b0 = 224 THEN 160 ELSE 128)
               /\ b1 <= (IF b0 = 237 THEN 159 ELSE 191)
               /\ IsCont(b2)
            THEN [r |-> (b0 % 16) * 4096 + (b1 % 64) * 64 + (b2 % 64), w |-> 3]
            ELSE bad
        ELSE IF b0 >= 240 /\ b0 <= 244 THEN
            IF /\ n >= 4
               /\ b1 >= (IF b0 = 240 THEN 144 ELSE 128)
               /\ b1 <= (IF b0 = 244 THEN 143 ELSE 191)
               /\ IsCont(b2)
               /\ IsCont(b3)
            THEN [r |-> (b0 % 8) * 262144 + (b1 % 64) * 4096 + (b2 % 64) * 64 + (b3 % 64),
                  w |-> 4]
            ELSE bad
        ELSE bad

(***************************************************************************)
(* The UTF-8 encoding of a rune, as bytes.Buffer.WriteRune and string(r)   *)
(* produce it; a surrogate or out-of-range rune is written as RuneError.   *)
(***************************************************************************)
EncodeRune(r) ==
    LET c == IF r < 0 \/ r > 1114111 \/ (r >= 55296 /\ r <= 57343) THEN RuneError ELSE r
    IN  IF c < 128 THEN <<c>>
        ELSE IF c < 2048 THEN <<192 + (c \div 64), 128 + (c % 64)>>
        ELSE IF c < 65536 THEN
            <<224 + (c \div 4096), 128 + ((c \div 64) % 64), 128 + (c % 64)>>
        ELSE <<240 + (c \div 262144), 128 + ((c \div 4096) % 64),
               128 + ((c \div 64) % 64), 128 + (c % 64)>>

(***************************************************************************)
(* Tokens and errors.                                                      *)
(***************************************************************************)
\* Token{}: the zero value (its Kind is the first kind, Invalid)
ZeroToken ==
    [Kind |-> "Invalid", Start |-> 0, End |-> 0, Value |-> <<>>, Line |-> 0, Column |-> 0]

\* a nil error
Nil == [msg |-> "nil", arg |-> <<>>]

\* fmt.Errorf(format, args...): the format and the formatted argument
Errorf(format, arg) == [msg |-> format, arg |-> arg]

\* Lexer.New
New(in) ==
    [input |-> in, start |-> 0, startRunes |-> 0, end |-> 0, endRunes |-> 0,
     line |-> 1, lineStartRunes |-> 0,
     peeked |-> FALSE, peekToken |-> ZeroToken, peekError |-> Nil,
     lastToken |-> ZeroToken]

\* what a scanning function hands back
Returned(s, tok, err) == [s |-> s, tok |-> tok, err |-> err, panic |-> FALSE, scanned |-> TRUE]

\* a run-time panic: nothing is returned, the named results keep their zero values
Panic(s) == [s |-> s, tok |-> ZeroToken, err |-> Nil, panic |-> TRUE, scanned |-> TRUE]

\* makeToken with the span in bytes
makeTokenByteSpan(s, kind) ==
    Returned(s,
             [Kind |-> kind, Start |-> s.start, End |-> s.end,
              Value |-> Slice(s.input, s.start, s.end), Line |-> s.line,
              Column |-> s.startRunes - s.lineStartRunes + 1],
             Nil)

makeToken(s, kind) ==
    Returned(s,
             [Kind |-> kind, Start |-> s.startRunes, End |-> s.endRunes,
              Value |-> Slice(s.input, s.start, s.end), Line |-> s.line,
              Column |-> s.startRunes - s.lineStartRunes + 1],
             Nil)

\* makeError with the column taken at the token's start, as makeToken takes it
makeErrorStartColumn(s, format, arg) ==
    Returned(s,
             [Kind |-> "Invalid", Start |-> s.startRunes, End |-> s.endRunes,
              Value |-> <<>>, Line |-> s.line,
              Column |-> s.startRunes - s.lineStartRunes + 1],
             Errorf(format, arg))

makeError(s, format, arg) ==
    Returned(s,
             [Kind |-> "Invalid", Start |-> s.startRunes, End |-> s.endRunes,
              Value |-> <<>>, Line |-> s.line,
              Column |-> s.endRunes - s.lineStartRunes + 1],
             Errorf(format, arg))

\* s.end += n; s.endRunes += n
Advance(s, n) == [s EXCEPT !.end = @ + n, !.endRunes = @ + n]

\* s.end += w; s.endRunes++
AdvanceRune(s, w) == [s EXCEPT !.end = @ + w, !.endRunes = @ + 1]

\* s.line++; s.lineStartRunes = s.endRunes
NewLine(s) == [s EXCEPT !.line = @ + 1, !.lineStartRunes = s.endRunes]

(***************************************************************************)
(* ws: skip whitespace, commas, line terminators and byte order marks.     *)
(***************************************************************************)
RECURSIVE ws(_)
ws(s) ==
    IF ~(s.end < Len(s.input)) THEN s
    ELSE LET b == ByteAt(s.input, s.end) IN
        IF b \in {TAB, SPACE, COMMA} THEN ws(Advance(s, 1))
        ELSE IF b = LF THEN ws(NewLine(Advance(s, 1)))
        ELSE IF b = CR THEN
            LET s1 == NewLine(Advance(s, 1)) IN
            IF s1.end < Len(s1.input) /\ ByteAt(s1.input, s1.end) = LF
            THEN ws(Advance(s1, 1))
            ELSE ws(s1)
        ELSE IF b = BOM0 THEN
            IF /\ s.end + 2 < Len(s.input)
               /\ ByteAt(s.input, s.end + 1) = BOM1
               /\ ByteAt(s.input, s.end + 2) = BOM2
            THEN ws(AdvanceRune(s, 3))
            ELSE s
        ELSE s

(***************************************************************************)
(* readComment: the '#' has been consumed; consume up to the first rune    *)
(* that is <= 0x1f and not a tab.                                          *)
(***************************************************************************)
\* readComment that also consumes a '\n', and so the line terminator ending the comment
RECURSIVE readCommentThroughNewline(_)
readCommentThroughNewline(s) ==
    IF ~(s.end < Len(s.input)) THEN makeToken(s, "Comment")
    ELSE LET d == DecodeRune(s.input, s.end) IN
        IF d.r > 31 \/ d.r = TAB \/ d.r = LF
        THEN readCommentThroughNewline(AdvanceRune(s, d.w))
        ELSE makeToken(s, "Comment")

RECURSIVE readComment(_)
readComment(s) ==
    IF ~(s.end < Len(s.input)) THEN makeToken(s, "Comment")
    ELSE LET d == DecodeRune(s.input, s.end) IN
        IF d.r > 31 \/ d.r = TAB
        THEN readComment(AdvanceRune(s, d.w))
        ELSE makeToken(s, "Comment")

(***************************************************************************)
(* readName                                                                *)
(***************************************************************************)
RECURSIVE readName(_)
readName(s) ==
    IF ~(s.end < Len(s.input)) THEN makeToken(s, "Name")
    ELSE LET d == DecodeRune(s.input, s.end) IN
        IF d.r \in NameCont
        THEN readName(AdvanceRune(s, d.w))
        ELSE makeToken(s, "Name")

(***************************************************************************)
(* readNumber and its helpers.                                             *)
(***************************************************************************)
\* acceptByte(bytes...): consume the next byte when it is one of them
acceptByte(s, bytes) ==
    IF s.end >= Len(s.input) THEN [s |-> s, ok |-> FALSE]
    ELSE IF ByteAt(s.input, s.end) \in bytes THEN [s |-> Advance(s, 1), ok |-> TRUE]
    ELSE [s |-> s, ok |-> FALSE]

\* acceptDigits: consume a run of digits and count them
RECURSIVE acceptDigits(_)
acceptDigits(s) ==
    IF s.end < Len(s.input) /\ ByteAt(s.input, s.end) >= 48 /\ ByteAt(s.input, s.end) <= 57
    THEN LET a == acceptDigits(Advance(s, 1)) IN [s |-> a.s, consumed |-> a.consumed + 1]
    ELSE [s |-> s, consumed |-> 0]

\* describeNext: the next byte, quoted, or <EOF>
describeNext(s) ==
    IF s.end < Len(s.input)
    THEN <<QUOTE>> \o EncodeRune(ByteAt(s.input, s.end)) \o <<QUOTE>>
    ELSE EOFText

ExpectedDigit(s) ==
    makeError(s, "Invalid number, expected digit but got: %s.", describeNext(s))

\* the exponent part of readNumber and its result
readExponent(s, float) ==
    LET e == acceptByte(s, {69, 101})
        sign == acceptByte(e.s, {MINUS, PLUS})
        d == acceptDigits(sign.s)
    IN  IF e.ok /\ d.consumed = 0 THEN ExpectedDigit(d.s)
        ELSE IF e.ok THEN makeToken(d.s, "Float")
        ELSE IF float THEN makeToken(s, "Float")
        ELSE makeToken(s, "Int")

\* the fraction part of readNumber
readFraction(s) ==
    LET dot == acceptByte(s, {DOT})
        d == acceptDigits(dot.s)
    IN  IF dot.ok /\ d.consumed = 0 THEN ExpectedDigit(d.s)
        ELSE IF dot.ok THEN readExponent(d.s, TRUE)
        ELSE readExponent(s, FALSE)

\* readNumber that lets digits follow a leading 0
readNumberLeadingZeros(s) ==
    LET s1 == acceptByte(Advance(s, -1), {MINUS}).s
        d == acceptDigits(s1)
    IN  IF d.consumed = 0 THEN ExpectedDigit(d.s) ELSE readFraction(d.s)

readNumber(s) ==
    LET s1 == acceptByte(Advance(s, -1), {MINUS}).s
        zero == acceptByte(s1, {48})
        d == acceptDigits(zero.s)
    IN  IF zero.ok /\ d.consumed # 0 THEN
            LET s2 == Advance(d.s, -d.consumed) IN
            makeError(s2, "Invalid number, unexpected digit after 0: %s.", describeNext(s2))
        ELSE IF ~zero.ok /\ d.consumed = 0 THEN ExpectedDigit(d.s)
        ELSE readFraction(d.s)

(***************************************************************************)
(* unhex: the value of a run of hex digits; ok is FALSE at the first       *)
(* character that is none.                                                 *)
(***************************************************************************)
HexValue(c) ==
    IF c >= 48 /\ c <= 57 THEN c - 48
    ELSE IF c >= 97 /\ c <= 102 THEN c - 97 + 10
    ELSE IF c >= 65 /\ c <= 70 THEN c - 65 + 10
    ELSE -1

RECURSIVE unhexFrom(_, _)
unhexFrom(b, v) ==
    IF b = <<>> THEN [v |-> v, ok |-> TRUE]
    ELSE IF HexValue(Head(b)) < 0 THEN [v |-> 0, ok |-> FALSE]
    ELSE unhexFrom(Tail(b), (v * 16) + HexValue(Head(b)))

\* unhex that counts the letters a..f and A..F from 0, not from 10
RECURSIVE unhexLettersFromZero(_)
unhexLettersFromZero(b) ==
    IF b = <<>> THEN [v |-> 0, ok |-> TRUE]
    ELSE LET front == unhexLettersFromZero(SubSeq(b, 1, Len(b) - 1))
             c == b[Len(b)]
         IN  IF ~front.ok \/ HexValue(c) < 0 THEN [v |-> 0, ok |-> FALSE]
             ELSE [v |-> (front.v * 16) + (IF c \in Digits THEN c - 48 ELSE HexValue(c) - 10),
                   ok |-> TRUE]

unhex(b) == unhexFrom(b, 0)

(***************************************************************************)
(* readString: the opening quote has been consumed.  buf is the lazily     *)
(* created decode buffer: [nil |-> TRUE] until the first escape.           *)
(***************************************************************************)
NilBuffer == [nil |-> TRUE, b |-> <<>>]

\* bytes.NewBufferString
NewBufferString(b) == [nil |-> FALSE, b |-> b]

\* buf.WriteRune / buf.WriteByte / buf.WriteString
Write(buf, b) == [buf EXCEPT !.b = @ \o b]

\* what a one-letter escape stands for; <<>> for an unknown letter
EscapeValue(escape) ==
    IF escape \in {QUOTE, SLASH, BACKSLASH} THEN <<escape>>
    ELSE IF escape = 98 THEN <<8>>
    ELSE IF escape = 102 THEN <<12>>
    ELSE IF escape = 110 THEN <<LF>>
    ELSE IF escape = 114 THEN <<CR>>
    ELSE IF escape = 116 THEN <<TAB>>
    ELSE <<>>

\* closeString that leaves the cursor on the closing quote
closeStringNoSkip(s, buf) ==
    LET t == makeToken(s, "String").tok IN
    Returned(s,
             [t EXCEPT !.Start = @ - 1, !.End = @ + 1,
                       !.Value = IF buf.nil THEN @ ELSE buf.b],
             Nil)

\* the token of a string closed at s.end: the span covers the quotes
closeString(s, buf) ==
    LET t == makeToken(s, "String").tok IN
    Returned(Advance(s, 1),
             [t EXCEPT !.Start = @ - 1, !.End = @ + 1,
                       !.Value = IF buf.nil THEN @ ELSE buf.b],
             Nil)

RECURSIVE readStringLoop(_, _)
readStringLoop(s, buf) ==
    LET inputLen == Len(s.input) IN
    IF ~(s.end < inputLen) THEN makeError(s, "Unterminated string.", <<>>)
    ELSE LET r == ByteAt(s.input, s.end) IN
        IF r = LF \/ r = CR THEN makeError(s, "Unterminated string.", <<>>)
        ELSE IF r < 32 /\ r # TAB THEN
            makeError(s, "Invalid character within String: \"\\u%04d\".", <<r>>)
        ELSE IF r = QUOTE THEN closeString(s, buf)
        ELSE IF r = BACKSLASH THEN
            IF s.end + 1 >= inputLen THEN
                makeError(Advance(s, 1), "Invalid character escape sequence.", <<>>)
            ELSE
                LET buf1 == IF buf.nil
                            THEN NewBufferString(Slice(s.input, s.start, s.end))
                            ELSE buf
                    escape == ByteAt(s.input, s.end + 1)
                    s1 == Advance(s, 1)
                IN  IF escape = 117 THEN
                        IF s.end + 6 >= inputLen THEN
                            makeError(s1, "Invalid character escape sequence: \\%s.",
                                      Slice(s1.input, s1.end, inputLen))
                        ELSE
                            LET h == unhex(Slice(s.input, s.end + 2, s.end + 6)) IN
                            IF ~h.ok THEN
                                makeError(s1, "Invalid character escape sequence: \\%s.",
                                          Slice(s1.input, s1.end, s1.end + 5))
                            ELSE readStringLoop(Advance(s, 6), Write(buf1, EncodeRune(h.v)))
                    ELSE IF EscapeValue(escape) # <<>> THEN
                        readStringLoop(Advance(s, 2), Write(buf1, EscapeValue(escape)))
                    ELSE
                        makeError(s1, "Invalid character escape sequence: \\%s.",
                                  EncodeRune(escape))
        ELSE
            LET d == IF r >= 127 THEN DecodeRune(s.input, s.end) ELSE [r |-> r, w |-> 1] IN
            readStringLoop(AdvanceRune(s, d.w),
                           IF buf.nil THEN buf ELSE Write(buf, EncodeRune(d.r)))

readString(s) ==
    readStringLoop([s EXCEPT !.start = @ + 1, !.startRunes = @ + 1], NilBuffer)

(***************************************************************************)
(* blockStringValue: the GraphQL block string value of the raw body: the   *)
(* common indentation of all lines but the first is removed from them,     *)
(* then leading and trailing blank lines are dropped.                      *)
(***************************************************************************)
RECURSIVE SplitLines(_, _)
SplitLines(raw, cur) ==
    IF raw = <<>> THEN <<cur>>
    ELSE IF Head(raw) = LF THEN <<cur>> \o SplitLines(Tail(raw), <<>>)
    ELSE SplitLines(Tail(raw), Append(cur, Head(raw)))

RECURSIVE JoinLines(_)
JoinLines(lines) ==
    IF lines = <<>> THEN <<>>
    ELSE IF Len(lines) = 1 THEN lines[1]
    ELSE lines[1] \o <<LF>> \o JoinLines(Tail(lines))

RECURSIVE leadingWhitespace(_)
leadingWhitespace(str) ==
    IF str # <<>> /\ Head(str) \in {SPACE, TAB}
    THEN 1 + leadingWhitespace(Tail(str))
    ELSE 0

IsBlankLine(str) == leadingWhitespace(str) = Len(str)

blockStringValue(raw) ==
    LET lines == SplitLines(raw, <<>>)
        indents == {leadingWhitespace(lines[i]) :
                        i \in {j \in 2..Len(lines) : ~IsBlankLine(lines[j])}}
        hasIndent == indents # {}
        commonIndent == CHOOSE m \in indents : \A k \in indents : m <= k
        cut == [i \in 1..Len(lines) |->
                   IF i = 1 \/ ~hasIndent THEN lines[i]
                   ELSE IF Len(lines[i]) < commonIndent THEN <<>>
                   ELSE SubSeq(lines[i], commonIndent + 1, Len(lines[i]))]
        nonBlank == {i \in 1..Len(cut) : ~IsBlankLine(cut[i])}
        first == CHOOSE m \in nonBlank : \A k \in nonBlank : m <= k
        last == CHOOSE m \in nonBlank : \A k \in nonBlank : m >= k
    IN  IF nonBlank = {} THEN <<>> ELSE JoinLines(SubSeq(cut, first, last))

(***************************************************************************)
(* readBlockString: the first quote of the opening """ has been consumed.  *)
(***************************************************************************)
\* closeBlockString whose token spans the body only
closeBlockStringBodySpan(s, buf) ==
    LET t == makeToken(s, "BlockString").tok IN
    Returned(Advance(s, 3), [t EXCEPT !.Value = blockStringValue(buf)], Nil)

\* the token of a block string closed at s.end: the span covers both """
closeBlockString(s, buf) ==
    LET t == makeToken(s, "BlockString").tok IN
    Returned(Advance(s, 3),
             [t EXCEPT !.Start = @ - 3, !.End = @ + 3, !.Value = blockStringValue(buf)],
             Nil)

\* the '\r' branch: s.input[s.end+1] is read whenever s.end+1 <= inputLen
RECURSIVE readBlockStringLoop(_, _)
\* the '\r' branch that writes a second '\n' for the '\n' of "\r\n"
readBlockStringCRThenLF(s, buf) ==
    IF s.end + 1 <= Len(s.input) /\ ~(s.end + 1 < Len(s.input)) THEN Panic(s)
    ELSE readBlockStringLoop(Advance(s, 1), buf \o <<LF>>)

readBlockStringCR(s, buf) ==
    LET inputLen == Len(s.input) IN
    IF s.end + 1 <= inputLen /\ ~(s.end + 1 < inputLen) THEN Panic(s)
    ELSE
        LET s1 == IF s.end + 1 <= inputLen /\ ByteAt(s.input, s.end + 1) = LF
                  THEN Advance(s, 1)
                  ELSE s
        IN  readBlockStringLoop(Advance(s1, 1), buf \o <<LF>>)

readBlockStringLoop(s, buf) ==
    LET inputLen == Len(s.input) IN
    IF ~(s.end < inputLen) THEN makeError(s, "Unterminated string.", <<>>)
    ELSE LET r == ByteAt(s.input, s.end) IN
        IF /\ r = QUOTE
           /\ s.end + 3 <= inputLen
           /\ Slice(s.input, s.end, s.end + 3) = TripleQuote
        THEN closeBlockString(s, buf)
        ELSE IF r < 32 /\ r # TAB /\ r # LF /\ r # CR THEN
            makeError(s, "Invalid character within String: \"\\u%04d\".", <<r>>)
        ELSE IF /\ r = BACKSLASH
                /\ s.end + 4 <= inputLen
                /\ Slice(s.input, s.end, s.end + 4) = EscapedTripleQuote
        THEN readBlockStringLoop(Advance(s, 4), buf \o TripleQuote)
        ELSE IF r = CR THEN readBlockStringCR(s, buf)
        ELSE
            LET d == IF r >= 127 THEN DecodeRune(s.input, s.end) ELSE [r |-> r, w |-> 1] IN
            readBlockStringLoop(AdvanceRune(s, d.w), buf \o EncodeRune(d.r))

readBlockString(s) ==
    readBlockStringLoop([s EXCEPT !.start = @ + 3, !.startRunes = @ + 3,
                                  !.end = @ + 2, !.endRunes = @ + 2],
                        <<>>)

(***************************************************************************)
(* ReadToken                                                               *)
(***************************************************************************)
Punctuator(r) ==
    IF r = BANG THEN "Bang"
    ELSE IF r = DOLLAR THEN "Dollar"
    ELSE IF r = AMP THEN "Amp"
    ELSE IF r = PARENL THEN "ParenL"
    ELSE IF r = PARENR THEN "ParenR"
    ELSE IF r = COLON THEN "Colon"
    ELSE IF r = EQUALS THEN "Equals"
    ELSE IF r = ATSIGN THEN "At"
    ELSE IF r = BRACKETL THEN "BracketL"
    ELSE IF r = BRACKETR THEN "BracketR"
    ELSE IF r = BRACEL THEN "BraceL"
    ELSE IF r = BRACER THEN "BraceR"
    ELSE IF r = PIPE THEN "Pipe"
    ELSE "none"

\* s.input[s.start:s.start+3] == lit, guarded by len(s.input) > s.start+2
StartsWith3(s, lit) ==
    Len(s.input) > s.start + 2 /\ Slice(s.input, s.start, s.start + 3) = lit

\* dispatchError that leaves the cursor past the offending byte
dispatchErrorNoRewind(s, r) ==
    IF r < 32 /\ r # TAB /\ r # LF /\ r # CR THEN
        makeError(s, "Cannot contain the invalid character \"\\u%04d\"", <<r>>)
    ELSE IF r = APOSTROPHE THEN
        makeError(s,
            "Unexpected single quote character ('), did you mean to use a double quote (\")?",
            <<>>)
    ELSE makeError(s, "Cannot parse the unexpected character \"%s\".", EncodeRune(r))

\* the end of ReadToken: no case of the switch returned; s.end--, s.endRunes--
dispatchError(s, r) ==
    LET s1 == Advance(s, -1) IN
    IF r < 32 /\ r # TAB /\ r # LF /\ r # CR THEN
        makeError(s1, "Cannot contain the invalid character \"\\u%04d\"", <<r>>)
    ELSE IF r = APOSTROPHE THEN
        makeError(s1,
            "Unexpected single quote character ('), did you mean to use a double quote (\")?",
            <<>>)
    ELSE makeError(s1, "Cannot parse the unexpected character \"%s\".", EncodeRune(r))

\* readEOF that counts one more rune at each end of input
readEOFCountingRune(s) == makeToken([s EXCEPT !.endRunes = @ + 1], "EOF")

\* the end of input: an EOF token at the cursor
readEOF(s) == makeToken(s, "EOF")

\* deferLastToken that records a token only when the call succeeded
deferLastTokenOnSuccess(res) ==
    IF res.err = Nil THEN [res EXCEPT !.s.lastToken = res.tok] ELSE res

\* the deferred s.lastToken = token
deferLastToken(res) == [res EXCEPT !.s.lastToken = res.tok]

\* the cached token and error are returned and the cache is cleared
takePeeked(s) ==
    [s |-> [s EXCEPT !.peeked = FALSE], tok |-> s.peekToken, err |-> s.peekError,
     panic |-> FALSE, scanned |-> FALSE]

RECURSIVE ReadToken(_)
\* the switch of ReadToken on the byte r just consumed
dispatch(s, r) ==
    IF Punctuator(r) # "none" THEN makeToken(s, Punctuator(r))
    ELSE IF r = HASH THEN ReadToken(readComment(s).s)
    ELSE IF r = DOT THEN
        IF StartsWith3(s, Spread3) THEN makeToken(Advance(s, 2), "Spread")
        ELSE dispatchError(s, r)
    ELSE IF r \in NameStart THEN readName(s)
    ELSE IF r = MINUS \/ r \in Digits THEN readNumber(s)
    ELSE IF r = QUOTE THEN
        IF StartsWith3(s, TripleQuote) THEN readBlockString(s) ELSE readString(s)
    ELSE dispatchError(s, r)

ReadToken(s) ==
    deferLastToken(
        IF s.peeked THEN takePeeked(s)
        ELSE
            LET s1 == ws(s)
                s2 == [s1 EXCEPT !.start = s1.end, !.startRunes = s1.endRunes]
            IN  IF s2.end >= Len(s2.input) THEN readEOF(s2)
                ELSE dispatch(Advance(s2, 1), ByteAt(s2.input, s2.start)))

(***************************************************************************)
(* PeekToken: the result of ReadToken is cached unless it panicked.        *)
(***************************************************************************)
\* fillPeek that never marks the cache as filled
fillPeekUnmarked(res) ==
    [res EXCEPT !.s.peekToken = res.tok, !.s.peekError = res.err]

\* fillPeek that keeps the token and drops the error
fillPeekDropError(res) ==
    [res EXCEPT !.s.peekToken = res.tok, !.s.peeked = TRUE]

\* s.peekToken, s.peekError = s.ReadToken(); s.peeked = true
fillPeek(res) ==
    [res EXCEPT !.s.peekToken = res.tok, !.s.peekError = res.err, !.s.peeked = TRUE]

PeekToken(s) ==
    IF ~s.peeked THEN
        LET res == ReadToken(s) IN
        IF res.panic THEN res
        ELSE LET f == fillPeek(res) IN [f EXCEPT !.tok = f.s.peekToken, !.err = Nil]
    ELSE [s |-> s, tok |-> s.peekToken, err |-> Nil, panic |-> FALSE, scanned |-> FALSE]

LastToken(s) == s.lastToken

(***************************************************************************)
(* The loops of the scanners, one iteration at a time.  An iteration       *)
(* either goes on, with the lexer and the decode buffer it leaves, or      *)
(* ends the function with what it returns.                                 *)
(***************************************************************************)
GoOn(s, buf) == [done |-> FALSE, s |-> s, buf |-> buf, res |-> Returned(s, ZeroToken, Nil)]

Done(res) == [done |-> TRUE, s |-> res.s, buf |-> NilBuffer, res |-> res]

\* the loop of ws: its test and one pass through its switch
wsIteration(s) ==
    IF ~(s.end < Len(s.input)) THEN [s |-> s, more |-> FALSE]
    ELSE LET b == ByteAt(s.input, s.end) IN
        IF b \in {TAB, SPACE, COMMA} THEN [s |-> Advance(s, 1), more |-> TRUE]
        ELSE IF b = LF THEN [s |-> NewLine(Advance(s, 1)), more |-> TRUE]
        ELSE IF b = CR THEN
            LET s1 == NewLine(Advance(s, 1)) IN
            [s |-> IF s1.end < Len(s1.input) /\ ByteAt(s1.input, s1.end) = LF
                   THEN Advance(s1, 1) ELSE s1,
             more |-> TRUE]
        ELSE IF /\ b = BOM0
                /\ s.end + 2 < Len(s.input)
                /\ ByteAt(s.input, s.end + 1) = BOM1
                /\ ByteAt(s.input, s.end + 2) = BOM2
        THEN [s |-> AdvanceRune(s, 3), more |-> TRUE]
        ELSE [s |-> s, more |-> FALSE]

\* the loop of readComment
readCommentIteration(s) ==
    IF s.end < Len(s.input)
           /\ (DecodeRune(s.input, s.end).r > 31 \/ DecodeRune(s.input, s.end).r = TAB)
    THEN [s |-> AdvanceRune(s, DecodeRune(s.input, s.end).w), more |-> TRUE]
    ELSE [s |-> s, more |-> FALSE]

\* the loop of readName
readNameIteration(s) ==
    IF s.end < Len(s.input) /\ DecodeRune(s.input, s.end).r \in NameCont
    THEN [s |-> AdvanceRune(s, DecodeRune(s.input, s.end).w), more |-> TRUE]
    ELSE [s |-> s, more |-> FALSE]

\* the loop of acceptDigits
acceptDigitsIteration(s) ==
    IF s.end < Len(s.input) /\ ByteAt(s.input, s.end) >= 48 /\ ByteAt(s.input, s.end) <= 57
    THEN [s |-> Advance(s, 1), more |-> TRUE]
    ELSE [s |-> s, more |-> FALSE]

\* the loop of readString
readStringIteration(s, buf) ==
    LET inputLen == Len(s.input) IN
    IF ~(s.end < inputLen) THEN Done(makeError(s, "Unterminated string.", <<>>))
    ELSE LET r == ByteAt(s.input, s.end) IN
        IF r = LF \/ r = CR THEN Done(makeError(s, "Unterminated string.", <<>>))
        ELSE IF r < 32 /\ r # TAB THEN
            Done(makeError(s, "Invalid character within String: \"\\u%04d\".", <<r>>))
        ELSE IF r = QUOTE THEN Done(closeString(s, buf))
        ELSE IF r = BACKSLASH THEN
            IF s.end + 1 >= inputLen THEN
                Done(makeError(Advance(s, 1), "Invalid character escape sequence.", <<>>))
            ELSE
                LET buf1 == IF buf.nil
                            THEN NewBufferString(Slice(s.input, s.start, s.end))
                            ELSE buf
                    escape == ByteAt(s.input, s.end + 1)
                    s1 == Advance(s, 1)
                IN  IF escape = 117 THEN
                        IF s.end + 6 >= inputLen THEN
                            Done(makeError(s1, "Invalid character escape sequence: \\%s.",
                                           Slice(s1.input, s1.end, inputLen)))
                        ELSE IF ~unhex(Slice(s.input, s.end + 2, s.end + 6)).ok THEN
                            Done(makeError(s1, "Invalid character escape sequence: \\%s.",
                                           Slice(s1.input, s1.end, s1.end + 5)))
                        ELSE
                            GoOn(Advance(s, 6),
                                 Write(buf1,
                                       EncodeRune(unhex(Slice(s.input, s.end + 2, s.end + 6)).v)))
                    ELSE IF EscapeValue(escape) # <<>> THEN
                        GoOn(Advance(s, 2), Write(buf1, EscapeValue(escape)))
                    ELSE
                        Done(makeError(s1, "Invalid character escape sequence: \\%s.",
                                       EncodeRune(escape)))
        ELSE
            LET d == IF r >= 127 THEN DecodeRune(s.input, s.end) ELSE [r |-> r, w |-> 1] IN
            GoOn(AdvanceRune(s, d.w), IF buf.nil THEN buf ELSE Write(buf, EncodeRune(d.r)))

\* the loop of readBlockString
readBlockStringIteration(s, buf) ==
    LET inputLen == Len(s.input) IN
    IF ~(s.end < inputLen) THEN Done(makeError(s, "Unterminated string.", <<>>))
    ELSE LET r == ByteAt(s.input, s.end) IN
        IF /\ r = QUOTE
           /\ s.end + 3 <= inputLen
           /\ Slice(s.input, s.end, s.end + 3) = TripleQuote
        THEN Done(closeBlockString(s, buf.b))
        ELSE IF r < 32 /\ r # TAB /\ r # LF /\ r # CR THEN
            Done(makeError(s, "Invalid character within String: \"\\u%04d\".", <<r>>))
        ELSE IF /\ r = BACKSLASH
                /\ s.end + 4 <= inputLen
                /\ Slice(s.input, s.end, s.end + 4) = EscapedTripleQuote
        THEN GoOn(Advance(s, 4), Write(buf, TripleQuote))
        ELSE IF r = CR THEN
            IF s.end + 1 <= inputLen /\ ~(s.end + 1 < inputLen) THEN Done(Panic(s))
            ELSE IF s.end + 1 <= inputLen /\ ByteAt(s.input, s.end + 1) = LF
                THEN GoOn(Advance(s, 2), Write(buf, <<LF>>))
            ELSE GoOn(Advance(s, 1), Write(buf, <<LF>>))
        ELSE
            LET d == IF r >= 127 THEN DecodeRune(s.input, s.end) ELSE [r |-> r, w |-> 1] IN
            GoOn(AdvanceRune(s, d.w), Write(buf, EncodeRune(d.r)))

(***************************************************************************)
(* The inputs: every concatenation of at most MaxChunks chunks, a chunk    *)
(* being a byte or a short byte sequence the lexer treats as a unit, and   *)
(* the scenarios of the specification's section 8.                         *)
(***************************************************************************)
MaxChunks == 3

Chunks ==
    { <<97>>,                \* a
      <<49>>,                \* 1
      <<QUOTE>>,
      TripleQuote,
      <<LF>>,
      <<CR>>,
      <<HASH>>,
      <<BOM0, BOM1, BOM2>>,  \* a byte order mark
      <<195, 169>>,          \* U+00E9, two bytes
      <<1>>,                 \* a control character
      <<BACKSLASH>>,
      <<DOT>> }

RECURSIVE ChunkInputs(_)
ChunkInputs(n) ==
    IF n = 0 THEN {<<>>}
    ELSE LET shorter == ChunkInputs(n - 1) IN
         shorter \cup {i \o c : i \in shorter, c \in Chunks}

\* S6: # hi\n42
ScenarioS6 == <<HASH, SPACE, 104, 105, LF, 52, 50>>
\* S8: a\r\nb
ScenarioS8 == <<97, CR, LF, 98>>
\* S1: { hello }
ScenarioS1 == <<BRACEL, SPACE, 104, 101, 108, 108, 111, SPACE, BRACER>>

Scenarios == {ScenarioS1, ScenarioS6, ScenarioS8}

Inputs == ChunkInputs(MaxChunks) \cup Scenarios

(***************************************************************************)
(* The caller: a lexer is made over an input, then ReadToken, PeekToken    *)
(* and LastToken are called in any order.  A panic ends the program.       *)
(***************************************************************************)
NoToken == [valid |-> FALSE, tok |-> ZeroToken, err |-> Nil]

\* no ReadToken is running iteration by iteration
Idle ==
    [pc |-> "idle", step |-> "none", buf |-> NilBuffer, depth |-> 0, entry |-> 0,
     phase |-> "none", zero |-> FALSE, consumed |-> 0]
Some(tok, err) == [valid |-> TRUE, tok |-> tok, err |-> err]

InitWith(in) ==
    /\ lexer = New(in)
    /\ panicked = FALSE
    /\ call = "New"
    /\ ret = ZeroToken
    /\ retErr = Nil
    /\ scanned = FALSE
    /\ pre = New(in)
    /\ pending = NoToken
    /\ lastRead = NoToken
    /\ prevRead = NoToken
    /\ lastGot = NoToken
    /\ eofTok = NoToken
    /\ ref = Returned(New(in), ZeroToken, Nil)
    /\ frame = Idle

Init == \E in \in Inputs : InitWith(in)

CallReadToken ==
    /\ ~panicked
    /\ LET res == ReadToken(lexer) IN
        /\ lexer' = res.s
        /\ panicked' = res.panic
        /\ ret' = res.tok
        /\ retErr' = res.err
        /\ scanned' = res.scanned
        /\ IF res.panic
           THEN UNCHANGED <<lastRead, prevRead, lastGot, eofTok>>
           ELSE /\ lastRead' = Some(res.tok, res.err)
                /\ prevRead' = lastRead
                /\ lastGot' = Some(res.tok, res.err)
                /\ eofTok' = IF ~eofTok.valid /\ res.tok.Kind = "EOF"
                             THEN Some(res.tok, res.err)
                             ELSE eofTok
    /\ call' = "ReadToken"
    /\ pre' = lexer
    /\ pending' = NoToken
    /\ ref' = ReadToken(ref.s)
    /\ UNCHANGED frame

CallPeekToken ==
    /\ ~panicked
    /\ LET res == PeekToken(lexer) IN
        /\ lexer' = res.s
        /\ panicked' = res.panic
        /\ ret' = res.tok
        /\ scanned' = res.scanned
        /\ IF res.panic
           THEN UNCHANGED <<pending, lastGot>>
           ELSE /\ pending' = Some(res.tok, Nil)
                /\ lastGot' = Some(res.tok, Nil)
    /\ call' = "PeekToken"
    /\ retErr' = Nil
    /\ pre' = lexer
    /\ UNCHANGED <<lastRead, prevRead, eofTok, ref, frame>>

CallLastToken ==
    /\ ~panicked
    /\ ret' = LastToken(lexer)
    /\ call' = "LastToken"
    /\ retErr' = Nil
    /\ scanned' = FALSE
    /\ pre' = lexer
    /\ UNCHANGED <<lexer, panicked, pending, lastRead, prevRead, lastGot, eofTok, ref,
                   frame>>

Next == CallReadToken \/ CallPeekToken \/ CallLastToken

Spec == Init /\ [][Next]_vars

(***************************************************************************)
(* Strings: an opening quote followed by at most MaxStringChunks pieces of *)
(* string source, an opening """ followed by at most MaxBlockChunks        *)
(* pieces of block string source, and scenario S3.  The tokens of such an  *)
(* input are read one after the other.                                     *)
(***************************************************************************)
MaxStringChunks == 3

StringChunks ==
    { <<97>>,                             \* a
      <<195, 169>>,                       \* U+00E9, two bytes
      <<QUOTE>>,
      <<BACKSLASH, 110>>,                 \* the escape \n
      <<BACKSLASH, QUOTE>>,               \* the escape \"
      <<BACKSLASH, 117, 48, 48, 101, 57>>,    \* the escape of U+00E9
      <<BACKSLASH, 117, 100, 56, 48, 48>>,    \* the escape \ud800, a surrogate
      <<BACKSLASH, 117, 48>>,             \* the start of a \u escape
      <<BACKSLASH, 113>>,                 \* \q, no escape
      <<BACKSLASH>>,
      <<LF>>,
      <<195>> }                           \* the first byte of U+00E9 alone

\* every concatenation of at most n of the given chunks
RECURSIVE Concats(_, _)
Concats(chunks, n) ==
    IF n = 0 THEN {<<>>}
    ELSE LET shorter == Concats(chunks, n - 1) IN
         shorter \cup {i \o c : i \in shorter, c \in chunks}

\* S3: "a\"b\u00e9"
ScenarioS3 == <<QUOTE, 97, BACKSLASH, QUOTE, 98, BACKSLASH, 117, 48, 48, 101, 57, QUOTE>>

\* "a\Xb" for each one-letter escape X of readString
EscapeLetters == {QUOTE, SLASH, BACKSLASH, 98, 102, 110, 114, 116}

EscapeInputs == {<<QUOTE, 97, BACKSLASH, x, 98, QUOTE>> : x \in EscapeLetters}

MaxBlockChunks == 4

BlockChunks ==
    { <<97>>,                             \* a
      <<195, 169>>,                       \* U+00E9, two bytes
      <<SPACE>>,
      <<LF>>,
      <<CR>>,
      <<CR, LF>>,
      <<BACKSLASH>>,
      EscapedTripleQuote,
      <<QUOTE>>,
      TripleQuote }

StringInputs ==
    {<<QUOTE>> \o i : i \in Concats(StringChunks, MaxStringChunks)}
        \cup {TripleQuote \o i : i \in Concats(BlockChunks, MaxBlockChunks)}
        \cup {ScenarioS3} \cup EscapeInputs

InitString == \E in \in StringInputs : InitWith(in)

SpecString == InitString /\ [][CallReadToken]_vars

(***************************************************************************)
(* Numbers: every concatenation of at most MaxNumberChunks of the bytes    *)
(* readNumber tells apart, and some more numbers.                          *)
(***************************************************************************)
MaxNumberChunks == 5

NumberChunks == {<<MINUS>>, <<48>>, <<49>>, <<DOT>>, <<101>>, <<PLUS>>}

Number0123 == <<48, 49, 50, 51>>

\* 1E+1, -0.1E-1 and 1.E1: the exponent marker in upper case
NumberScenarios ==
    { Number0123,
      <<49, 69, PLUS, 49>>,
      <<MINUS, 48, DOT, 49, 69, MINUS, 49>>,
      <<49, DOT, 69, 49>> }

NumberInputs == Concats(NumberChunks, MaxNumberChunks) \cup NumberScenarios

InitNumber == \E in \in NumberInputs : InitWith(in)

SpecNumber == InitNumber /\ [][CallReadToken]_vars

(***************************************************************************)
(* Simple tokens among multi-byte characters: every concatenation of at    *)
(* most MaxTokenChunks of a name, a digit, punctuators, and a string, a    *)
(* comment, a block string and a byte order mark that hold characters of   *)
(* two, three and four bytes.                                              *)
(***************************************************************************)
MaxTokenChunks == 3

TokenChunks ==
    { <<97>>,                                     \* a
      <<49>>,                                     \* 1
      <<DOT>>,
      <<BRACEL>>,
      <<DOLLAR>>,
      <<SPACE>>,
      <<BOM0, BOM1, BOM2>>,
      <<QUOTE, 195, 169, QUOTE>>,                 \* a string holding U+00E9
      <<HASH, 240, 159, 152, 128, LF>>,           \* a comment holding U+1F600
      TripleQuote \o <<226, 130, 172>> \o TripleQuote }   \* a block string holding U+20AC

TokenInputs == Concats(TokenChunks, MaxTokenChunks) \cup {ScenarioS1}

InitTokens == \E in \in TokenInputs : InitWith(in)

SpecTokens == InitTokens /\ [][CallReadToken]_vars

(***************************************************************************)
(* Bytes that start no token: every concatenation of at most               *)
(* MaxDispatchChunks of such bytes, a name, whitespace and a comment       *)
(* sign, with ReadToken, PeekToken and LastToken called in any order.      *)
(***************************************************************************)
MaxDispatchChunks == 3

DispatchChunks ==
    { <<97>>,               \* a
      <<SPACE>>,
      <<LF>>,
      <<HASH>>,
      <<1>>,                \* a control character
      <<APOSTROPHE>>,
      <<DOT>>,
      <<BACKSLASH>>,
      <<195, 169>> }        \* U+00E9, two bytes

DispatchInputs == Concats(DispatchChunks, MaxDispatchChunks)

InitDispatch == \E in \in DispatchInputs : InitWith(in)

SpecDispatch == InitDispatch /\ [][Next]_vars

(***************************************************************************)
(* ReadToken run one loop iteration at a time.  frame.pc is the loop the   *)
(* call stands in, frame.step what its last step was: "call", "iterate"    *)
(* (one more pass through the loop), "exit" (the loop is left for the      *)
(* next one), "reenter" (readComment has returned and ReadToken calls      *)
(* itself), "return" or "panic".  frame.depth counts the calls of          *)
(* ReadToken inside the caller's, frame.entry is the cursor at the latest  *)
(* of them.  The straight-line code between two loops belongs to the step  *)
(* that leaves the first.                                                  *)
(***************************************************************************)
StepInputs == Inputs \cup {ScenarioS3} \cup EscapeInputs \cup NumberScenarios

InitSteps == \E in \in StepInputs : InitWith(in)

\* the call returns res, or panics: the deferred s.lastToken = token runs
StepReturn(res) ==
    /\ lexer' = deferLastToken(res).s
    /\ ret' = res.tok
    /\ retErr' = res.err
    /\ panicked' = res.panic
    /\ frame' = [Idle EXCEPT !.pc = IF res.panic THEN "panic" ELSE "idle",
                             !.step = IF res.panic THEN "panic" ELSE "return",
                             !.depth = frame.depth, !.entry = frame.entry]

\* the lexer becomes s and the call goes on in loop pc
StepTo(s, pc, step) ==
    /\ lexer' = s
    /\ frame' = [frame EXCEPT !.pc = pc, !.step = step, !.buf = NilBuffer,
                              !.phase = "none", !.zero = FALSE, !.consumed = 0]
    /\ UNCHANGED <<ret, retErr, panicked>>

\* the lexer becomes s and acceptDigits starts for the given part of a number
StepToDigits(s, phase, zero) ==
    /\ lexer' = s
    /\ frame' = [frame EXCEPT !.pc = "digits", !.step = "exit", !.phase = phase,
                              !.zero = zero, !.consumed = 0]
    /\ UNCHANGED <<ret, retErr, panicked>>

\* ReadToken is called on a lexer with an empty peek cache
StepCall ==
    /\ ~panicked
    /\ frame.pc = "idle"
    /\ ~lexer.peeked
    /\ frame' = [Idle EXCEPT !.pc = "ws", !.step = "call", !.entry = lexer.end]
    /\ call' = "ReadToken"
    /\ pre' = lexer
    /\ scanned' = TRUE
    /\ UNCHANGED <<lexer, panicked, ret, retErr, pending, lastRead, prevRead, lastGot,
                   eofTok, ref>>

\* ws has returned: the token starts at the cursor and ReadToken switches on
\* its first byte
StepDispatch(s1) ==
    LET s2 == [s1 EXCEPT !.start = s1.end, !.startRunes = s1.endRunes]
        r == ByteAt(s2.input, s2.start)
        s3 == Advance(s2, 1)
        minus == acceptByte(Advance(s3, -1), {MINUS})
        zero == acceptByte(minus.s, {48})
    IN  IF s2.end >= Len(s2.input) THEN StepReturn(readEOF(s2))
        ELSE IF r = HASH THEN StepTo(s3, "comment", "exit")
        ELSE IF r \in NameStart THEN StepTo(s3, "name", "exit")
        ELSE IF r = MINUS \/ r \in Digits THEN StepToDigits(zero.s, "int", zero.ok)
        ELSE IF r = QUOTE /\ StartsWith3(s3, TripleQuote) THEN
            /\ lexer' = [s3 EXCEPT !.start = @ + 3, !.startRunes = @ + 3,
                                   !.end = @ + 2, !.endRunes = @ + 2]
            /\ frame' = [frame EXCEPT !.pc = "block", !.step = "exit",
                                      !.buf = NewBufferString(<<>>)]
            /\ UNCHANGED <<ret, retErr, panicked>>
        ELSE IF r = QUOTE THEN
            StepTo([s3 EXCEPT !.start = @ + 1, !.startRunes = @ + 1], "string", "exit")
        ELSE StepReturn(dispatch(s3, r))

\* a step of ws
StepWs ==
    /\ frame.pc = "ws"
    /\ IF wsIteration(lexer).more
       THEN StepTo(wsIteration(lexer).s, "ws", "iterate")
       ELSE StepDispatch(lexer)
    /\ UNCHANGED <<call, scanned, pre, pending, lastRead, prevRead, lastGot, eofTok, ref>>

\* a step of readComment; when it has returned, ReadToken calls itself
StepComment ==
    /\ frame.pc = "comment"
    /\ IF readCommentIteration(lexer).more
       THEN StepTo(readCommentIteration(lexer).s, "comment", "iterate")
       ELSE /\ frame' = [frame EXCEPT !.pc = "ws", !.step = "reenter",
                                      !.depth = @ + 1, !.entry = lexer.end]
            /\ UNCHANGED <<lexer, ret, retErr, panicked>>
    /\ UNCHANGED <<call, scanned, pre, pending, lastRead, prevRead, lastGot, eofTok, ref>>

\* a step of readName
StepName ==
    /\ frame.pc = "name"
    /\ IF readNameIteration(lexer).more
       THEN StepTo(readNameIteration(lexer).s, "name", "iterate")
       ELSE StepReturn(makeToken(lexer, "Name"))
    /\ UNCHANGED <<call, scanned, pre, pending, lastRead, prevRead, lastGot, eofTok, ref>>

\* readNumber after the fraction, if any: the exponent marker and its sign
StepExponent(s, float) ==
    LET e == acceptByte(s, {69, 101}) IN
    IF e.ok THEN StepToDigits(acceptByte(e.s, {MINUS, PLUS}).s, "exp", FALSE)
    ELSE StepReturn(makeToken(s, IF float THEN "Float" ELSE "Int"))

\* a step of acceptDigits, and readNumber from where acceptDigits returns
StepDigits ==
    /\ frame.pc = "digits"
    /\ IF acceptDigitsIteration(lexer).more THEN
           /\ lexer' = acceptDigitsIteration(lexer).s
           /\ frame' = [frame EXCEPT !.step = "iterate", !.consumed = @ + 1]
           /\ UNCHANGED <<ret, retErr, panicked>>
       ELSE IF frame.phase = "int" /\ frame.zero /\ frame.consumed # 0 THEN
           LET s2 == Advance(lexer, -frame.consumed) IN
           StepReturn(makeError(s2, "Invalid number, unexpected digit after 0: %s.",
                                describeNext(s2)))
       ELSE IF frame.consumed = 0 /\ ~(frame.phase = "int" /\ frame.zero) THEN
           StepReturn(ExpectedDigit(lexer))
       ELSE IF frame.phase = "int" THEN
           IF acceptByte(lexer, {DOT}).ok
           THEN StepToDigits(acceptByte(lexer, {DOT}).s, "frac", FALSE)
           ELSE StepExponent(lexer, FALSE)
       ELSE IF frame.phase = "frac" THEN StepExponent(lexer, TRUE)
       ELSE StepReturn(makeToken(lexer, "Float"))
    /\ UNCHANGED <<call, scanned, pre, pending, lastRead, prevRead, lastGot, eofTok, ref>>

\* a step of readString
StepString ==
    /\ frame.pc = "string"
    /\ LET it == readStringIteration(lexer, frame.buf) IN
       IF it.done THEN StepReturn(it.res)
       ELSE /\ lexer' = it.s
            /\ frame' = [frame EXCEPT !.step = "iterate", !.buf = it.buf]
            /\ UNCHANGED <<ret, retErr, panicked>>
    /\ UNCHANGED <<call, scanned, pre, pending, lastRead, prevRead, lastGot, eofTok, ref>>

\* a step of readBlockString
StepBlockString ==
    /\ frame.pc = "block"
    /\ LET it == readBlockStringIteration(lexer, frame.buf) IN
       IF it.done THEN StepReturn(it.res)
       ELSE /\ lexer' = it.s
            /\ frame' = [frame EXCEPT !.step = "iterate", !.buf = it.buf]
            /\ UNCHANGED <<ret, retErr, panicked>>
    /\ UNCHANGED <<call, scanned, pre, pending, lastRead, prevRead, lastGot, eofTok, ref>>

NextStep ==
    \/ StepCall
    \/ StepWs
    \/ StepComment
    \/ StepName
    \/ StepDigits
    \/ StepString
    \/ StepBlockString

\* a call that has started keeps running: the code is sequential
SpecSteps == InitSteps /\ [][NextStep]_vars /\ WF_vars(NextStep)

(***************************************************************************)
(* Positions in the input, counted from the input alone.                   *)
(***************************************************************************)
\* the byte offset of the rune with 0-based index k, decoding from byte i
RECURSIVE ByteOfRune(_, _, _)
ByteOfRune(in, i, k) ==
    IF k = 0 \/ i >= Len(in) THEN i
    ELSE ByteOfRune(in, i + DecodeRune(in, i).w, k - 1)

\* the number of runes in in[a:b]
RECURSIVE RunesBetween(_, _, _)
RunesBetween(in, a, b) ==
    IF a >= b THEN 0 ELSE 1 + RunesBetween(in, a + DecodeRune(in, a).w, b)

\* the number of line breaks in in[i:n], "\r\n" being one break
RECURSIVE LineBreaks(_, _, _)
LineBreaks(in, i, n) ==
    IF i >= n THEN 0
    ELSE IF ByteAt(in, i) = CR THEN
        1 + LineBreaks(in, IF i + 1 < n /\ ByteAt(in, i + 1) = LF THEN i + 2 ELSE i + 1, n)
    ELSE IF ByteAt(in, i) = LF THEN 1 + LineBreaks(in, i + 1, n)
    ELSE LineBreaks(in, i + 1, n)

\* the byte offset just past the last line break in in[0:n], 0 when there is none
RECURSIVE LineStart(_, _)
LineStart(in, n) ==
    IF n = 0 THEN 0
    ELSE IF ByteAt(in, n - 1) \in {LF, CR} THEN n
    ELSE LineStart(in, n - 1)

\* the byte offset of a token's first rune
StartByte(in, tok) == ByteOfRune(in, 0, tok.Start)

ReadReturned == call = "ReadToken" /\ ~panicked

\* the call was the first ReadToken on a new lexer
FirstRead == call = "ReadToken" /\ pre = New(lexer.input)

(***************************************************************************)
(* C1  Peek consistency: after a PeekToken, the next PeekToken or          *)
(* ReadToken (LastToken calls in between or not) returns the token that    *)
(* PeekToken returned, and does so without scanning the input again.       *)
(***************************************************************************)
C1_PeekConsistency ==
    [][(pending.valid /\ call' \in {"ReadToken", "PeekToken"})
          => (ret' = pending.tok /\ ~scanned' /\ ~panicked')]_vars

\* a ReadToken served from the cache a PeekToken filled with a Name token
C1_Witness ==
    call = "ReadToken" /\ ~scanned /\ pre.peeked /\ ret.Kind = "Name" /\ ret = pre.peekToken

(***************************************************************************)
(* C2  Lookahead is transparent: whatever PeekToken and LastToken calls    *)
(* are interleaved, each ReadToken returns the token and the error that    *)
(* the same ReadToken returns on a lexer over the same input on which      *)
(* only ReadToken is called, and leaves the cache empty.                   *)
(***************************************************************************)
C2_LookaheadTransparent ==
    call = "ReadToken" =>
        /\ panicked = ref.panic
        /\ ret = ref.tok
        /\ retErr = ref.err
        /\ ~lexer.peeked

\* a ReadToken that returned the Invalid token and the error a PeekToken cached
C2_Witness ==
    /\ call = "ReadToken"
    /\ ~scanned
    /\ ret.Kind = "Invalid"
    /\ retErr # Nil
    /\ retErr = pre.peekError

(***************************************************************************)
(* C3  Position monotonicity: of two consecutive ReadToken calls, the      *)
(* first token's End is at most the second token's Start.                  *)
(***************************************************************************)
C3_PositionMonotonic ==
    (prevRead.valid /\ lastRead.valid) => prevRead.tok.End <= lastRead.tok.Start

\* a string token directly followed by a name
C3_Witness ==
    /\ prevRead.valid
    /\ prevRead.tok.Kind \in {"String", "BlockString"}
    /\ lastRead.tok.Kind = "Name"
    /\ prevRead.tok.End = lastRead.tok.Start

(***************************************************************************)
(* C4  Line counting: a token's Line minus 1 is the number of line breaks  *)
(* in the input before the token's first byte, wherever they occur.        *)
(***************************************************************************)
C4_LineCounting ==
    ReadReturned =>
        ret.Line - 1 = LineBreaks(lexer.input, 0, StartByte(lexer.input, ret))

(***************************************************************************)
(* C5  Column correctness: a non-error token's Column is 1 plus the        *)
(* number of runes between the last line break before it and its first     *)
(* rune.                                                                   *)
(***************************************************************************)
C5_ColumnCorrect ==
    (ReadReturned /\ ret.Kind # "Invalid") =>
        LET b == StartByte(lexer.input, ret) IN
        ret.Column = 1 + RunesBetween(lexer.input, LineStart(lexer.input, b), b)

(***************************************************************************)
(* C6  EOF idempotence: once a ReadToken has returned EOF, every later     *)
(* ReadToken and PeekToken returns that same EOF token, with no error.     *)
(***************************************************************************)
C6_EOFIdempotent ==
    (eofTok.valid /\ call \in {"ReadToken", "PeekToken"}) =>
        /\ ~panicked
        /\ ret = eofTok.tok
        /\ retErr = Nil
        /\ lexer.peeked => lexer.peekError = Nil

\* a second EOF, read after the first one, at the end of a non-empty input
C6_Witness ==
    /\ call = "ReadToken"
    /\ scanned
    /\ prevRead.valid
    /\ prevRead.tok.Kind = "EOF"
    /\ ret.Kind = "EOF"
    /\ ret.Start > 0

(***************************************************************************)
(* C7  Errors and Invalid tokens coincide: ReadToken returns an error      *)
(* exactly when it returns an Invalid token, and that token's Column is    *)
(* endRunes - lineStartRunes + 1 where the scan stopped.                   *)
(***************************************************************************)
C7_ErrorIffInvalid ==
    ReadReturned =>
        /\ (retErr # Nil) <=> (ret.Kind = "Invalid")
        /\ ret.Kind = "Invalid" =>
               /\ ret.Column = lexer.endRunes - lexer.lineStartRunes + 1
               /\ ret.End = lexer.endRunes

\* an error found past the token's start, on a later line
C7_Witness ==
    /\ ReadReturned
    /\ retErr # Nil
    /\ ret.Kind = "Invalid"
    /\ lexer.endRunes > lexer.startRunes
    /\ lexer.lineStartRunes > 0

(***************************************************************************)
(* C8  Comments are skipped.                                               *)
(***************************************************************************)
\* the cursor, whitespace skipped, is on a '#'
CommentAt(s) ==
    LET s1 == ws(s) IN s1.end < Len(s1.input) /\ ByteAt(s1.input, s1.end) = HASH

\* the offset of the first line terminator at or after byte i, or the input's length
RECURSIVE NextLineTerminator(_, _)
NextLineTerminator(in, i) ==
    IF i >= Len(in) \/ ByteAt(in, i) \in {LF, CR} THEN i
    ELSE NextLineTerminator(in, i + 1)

\* the offset of the first rune at or after byte i that is below U+0020 and no
\* tab (a line terminator or another control character), or the input's length
RECURSIVE NextControl(_, _)
NextControl(in, i) ==
    IF i >= Len(in) THEN i
    ELSE LET d == DecodeRune(in, i) IN
         IF d.r < 32 /\ d.r # TAB THEN i ELSE NextControl(in, i + d.w)

\* one space for each rune of in[a:b]
RECURSIVE Spaces(_)
Spaces(n) == IF n = 0 THEN <<>> ELSE <<SPACE>> \o Spaces(n - 1)

\* the input with in[a:b] replaced by as many spaces as it has runes
Blanked(in, a, b) ==
    Slice(in, 0, a) \o Spaces(RunesBetween(in, a, b)) \o Slice(in, b, Len(in))

\* what ReadToken returns from lexer s when the comment at its cursor, taken to
\* end at byte offset q, is replaced by spaces
WithoutComment(s, q) ==
    LET res == ReadToken([s EXCEPT !.input = Blanked(s.input, ws(s).end, q)])
    IN  <<res.tok, res.err, res.panic>>

NoCommentToken == call \in {"ReadToken", "PeekToken"} => ret.Kind # "Comment"

ScenarioS6Token ==
    (FirstRead /\ lexer.input = ScenarioS6) =>
        /\ ret = [Kind |-> "Int", Start |-> 5, End |-> 7, Value |-> <<52, 50>>,
                  Line |-> 2, Column |-> 1]
        /\ retErr = Nil

\* C8 as stated: a comment runs to the next line terminator; no call returns a
\* Comment token, and ReadToken returns what it returns with the comment blank
C8_CommentToLineTerminator ==
    /\ NoCommentToken
    /\ ScenarioS6Token
    /\ (call = "ReadToken" /\ scanned /\ CommentAt(pre)) =>
           <<ret, retErr, panicked>> =
               WithoutComment(pre, NextLineTerminator(pre.input, ws(pre).end))

\* C8 as amended: a comment runs to the next line terminator or other control
\* character (a rune below U+0020 that is no tab)
C8_CommentsSkipped ==
    /\ NoCommentToken
    /\ ScenarioS6Token
    /\ (call = "ReadToken" /\ scanned /\ CommentAt(pre)) =>
           <<ret, retErr, panicked>> =
               WithoutComment(pre, NextControl(pre.input, ws(pre).end + 1))

\* a number read on the line after a comment
C8_Witness ==
    /\ call = "ReadToken"
    /\ scanned
    /\ CommentAt(pre)
    /\ ret.Kind = "Int"
    /\ ret.Line = 2
    /\ ret.Column = 1

(***************************************************************************)
(* C9  LastToken.                                                          *)
(***************************************************************************)
\* C9 as stated: LastToken returns the token of the caller's most recent
\* ReadToken, and the zero Token before the first ReadToken
C9_LastTokenIsLastRead ==
    call = "LastToken" => ret = (IF lastRead.valid THEN lastRead.tok ELSE ZeroToken)

\* C9 as amended: LastToken returns the token of the caller's most recent
\* ReadToken or PeekToken, and the zero Token before the first of them
C9_LastTokenIsLastGot ==
    call = "LastToken" => ret = (IF lastGot.valid THEN lastGot.tok ELSE ZeroToken)

\* LastToken after a PeekToken that followed a ReadToken of another token
C9_Witness ==
    /\ call = "LastToken"
    /\ lastRead.valid
    /\ lastGot.valid
    /\ lastGot.tok # lastRead.tok
    /\ ret = lastGot.tok

(***************************************************************************)
(* C10  Unterminated block string: when the cursor is on an opening """    *)
(* and no closing """ follows, the body being made of permitted            *)
(* characters, ReadToken returns an Invalid token and the error            *)
(* "Unterminated string."                                                  *)
(***************************************************************************)
\* no """ closes a block string body that starts at byte i
RECURSIVE Unclosed(_, _)
Unclosed(in, i) ==
    IF i >= Len(in) THEN TRUE
    ELSE IF i + 4 <= Len(in) /\ Slice(in, i, i + 4) = EscapedTripleQuote
        THEN Unclosed(in, i + 4)
    ELSE IF i + 3 <= Len(in) /\ Slice(in, i, i + 3) = TripleQuote THEN FALSE
    ELSE Unclosed(in, i + 1)

PermittedFrom(in, i) ==
    \A j \in i..(Len(in) - 1) : ByteAt(in, j) >= 32 \/ ByteAt(in, j) \in {TAB, LF, CR}

OpensUnterminatedBlock(s) ==
    LET i == ws(s).end IN
    /\ i + 3 <= Len(s.input)
    /\ Slice(s.input, i, i + 3) = TripleQuote
    /\ Unclosed(s.input, i + 3)
    /\ PermittedFrom(s.input, i + 3)

C10_UnterminatedBlockString ==
    (call = "ReadToken" /\ scanned /\ OpensUnterminatedBlock(pre)) =>
        /\ ~panicked
        /\ ret.Kind = "Invalid"
        /\ retErr = Errorf("Unterminated string.", <<>>)


(***************************************************************************)
(* Single-quoted strings, read from the input alone.                       *)
(***************************************************************************)
HexDigits == Digits \cup (65..70) \cup (97..102)

\* a complete valid escape starts at byte i: its length in bytes, else 0
EscapeLen(in, i) ==
    IF i + 1 < Len(in) /\ ByteAt(in, i) = BACKSLASH /\ ByteAt(in, i + 1) \in EscapeLetters
    THEN 2
    ELSE IF /\ i + 5 < Len(in)
            /\ ByteAt(in, i) = BACKSLASH
            /\ ByteAt(in, i + 1) = 117
            /\ \A k \in 2..5 : ByteAt(in, i + k) \in HexDigits
    THEN 6
    ELSE 0

\* the offset at which the run of ordinary characters and complete valid
\* escapes that starts at byte i ends: the input's length, or the offset of a
\* quote, a control character or a backslash that starts no valid escape
RECURSIVE StringRunEnd(_, _)
StringRunEnd(in, i) ==
    IF i >= Len(in) THEN i
    ELSE IF ByteAt(in, i) = BACKSLASH THEN
        IF EscapeLen(in, i) = 0 THEN i ELSE StringRunEnd(in, i + EscapeLen(in, i))
    ELSE IF ByteAt(in, i) = QUOTE \/ (ByteAt(in, i) < 32 /\ ByteAt(in, i) # TAB) THEN i
    ELSE StringRunEnd(in, i + DecodeRune(in, i).w)

\* the byte offset at which a scanning call finds its token: the cursor before
\* the call, whitespace skipped
TokenByte == ws(pre).end

\* the call was a ReadToken that scanned a single-quoted string: the token
\* starts with a quote that opens no block string
OpensString ==
    /\ call = "ReadToken"
    /\ scanned
    /\ TokenByte < Len(pre.input)
    /\ ByteAt(pre.input, TokenByte) = QUOTE
    /\ ~(TokenByte + 3 <= Len(pre.input)
            /\ Slice(pre.input, TokenByte, TokenByte + 3) = TripleQuote)

\* where the content of that string stops
ContentEnd == StringRunEnd(pre.input, TokenByte + 1)

EscapeErrors ==
    {"Invalid character escape sequence.", "Invalid character escape sequence: \\%s."}

(***************************************************************************)
(* C11  Unterminated string: when the content of an opened string, made    *)
(* of ordinary characters and complete valid escapes, runs to the end of   *)
(* the input or to a raw \n or \r, ReadToken returns an Invalid token and  *)
(* the error "Unterminated string."; an escape-sequence error is returned  *)
(* only when the content stops at a backslash that starts no complete      *)
(* valid escape.                                                           *)
(***************************************************************************)
C11_UnterminatedString ==
    OpensString =>
        /\ (ContentEnd = Len(pre.input) \/ ByteAt(pre.input, ContentEnd) \in {LF, CR}) =>
               /\ ret.Kind = "Invalid"
               /\ retErr = Errorf("Unterminated string.", <<>>)
        /\ retErr.msg \in EscapeErrors =>
               /\ ContentEnd < Len(pre.input)
               /\ ByteAt(pre.input, ContentEnd) = BACKSLASH


(***************************************************************************)
(* The number grammar, as predicates on text: an Int is an optional '-'    *)
(* and then either 0 or digits that do not start with 0; a Float is an     *)
(* Int, then optionally '.' and digits, then optionally e or E, an         *)
(* optional sign and digits.                                               *)
(***************************************************************************)
IsDigits(t) == t # <<>> /\ \A i \in 1..Len(t) : t[i] \in Digits

IsIntegerPart(t) == IsDigits(t) /\ (t[1] = 48 => Len(t) = 1)

IsInt(t) == IsIntegerPart(t) \/ (t # <<>> /\ t[1] = MINUS /\ IsIntegerPart(Tail(t)))

IsFraction(t) == t # <<>> /\ t[1] = DOT /\ IsDigits(Tail(t))

IsExponent(t) ==
    /\ t # <<>>
    /\ t[1] \in {69, 101}
    /\ \/ IsDigits(Tail(t))
       \/ Len(t) >= 2 /\ t[2] \in {PLUS, MINUS} /\ IsDigits(Tail(Tail(t)))

\* t matches the Float grammar, an Int with no fraction and no exponent included
IsNumber(t) ==
    \E a, b \in 0..Len(t) :
        /\ a <= b
        /\ IsInt(SubSeq(t, 1, a))
        /\ a < b => IsFraction(SubSeq(t, a + 1, b))
        /\ b < Len(t) => IsExponent(SubSeq(t, b + 1, Len(t)))

\* the length of the longest prefix of t that matches the grammar, 0 if none does
LongestNumber(t) ==
    LET ns == {n \in 0..Len(t) : n = 0 \/ IsNumber(SubSeq(t, 1, n))}
    IN  CHOOSE n \in ns : \A k \in ns : k <= n

\* the call was a ReadToken that scanned a token starting with '-' or a digit
StartsNumber ==
    /\ call = "ReadToken"
    /\ scanned
    /\ TokenByte < Len(pre.input)
    /\ ByteAt(pre.input, TokenByte) \in Digits \cup {MINUS}

InvalidNumberErrors ==
    {"Invalid number, unexpected digit after 0: %s.",
     "Invalid number, expected digit but got: %s."}

(***************************************************************************)
(* C12  Number grammar: with m the longest text at the token's start that  *)
(* matches the grammar, ReadToken returns an Invalid token and an          *)
(* "Invalid number" error exactly when m is 0 or -0 and a digit follows    *)
(* (the error then ends at that digit and reports it), or when no digit    *)
(* follows a '-', a '.' or an exponent marker with its optional sign;      *)
(* otherwise it returns m as Value, with kind Int when m has neither       *)
(* fraction nor exponent and Float when it has.                            *)
(***************************************************************************)
C12_NumberGrammar ==
    StartsNumber =>
        LET in == pre.input
            rest == Slice(in, TokenByte, Len(in))
            n == LongestNumber(rest)
            m == SubSeq(rest, 1, n)
            more == n < Len(rest)
            leadingZero == n > 0 /\ IsInt(m) /\ m[n] = 48 /\ n <= 2
                               /\ more /\ rest[n + 1] \in Digits
            noExponent == \A i \in 1..n : m[i] \notin {69, 101}
            noDigit == \/ n = 0
                       \/ IsInt(m) /\ more /\ rest[n + 1] = DOT
                       \/ noExponent /\ more /\ rest[n + 1] \in {69, 101}
        IN  IF leadingZero THEN
                /\ ret.Kind = "Invalid"
                /\ retErr = Errorf("Invalid number, unexpected digit after 0: %s.",
                                   <<QUOTE, rest[n + 1], QUOTE>>)
                /\ ret.End = RunesBetween(in, 0, TokenByte + n)
                /\ ret.Column = ret.End - lexer.lineStartRunes + 1
            ELSE IF noDigit THEN
                /\ ret.Kind = "Invalid"
                /\ retErr.msg = "Invalid number, expected digit but got: %s."
            ELSE
                /\ ret.Kind = (IF IsInt(m) THEN "Int" ELSE "Float")
                /\ ret.Value = m
                /\ retErr = Nil

\* a Float with a fraction and an exponent
C12_Witness ==
    /\ StartsNumber
    /\ ret.Kind = "Float"
    /\ \E i, j \in 1..Len(ret.Value) :
           i < j /\ ret.Value[i] = DOT /\ ret.Value[j] \in {69, 101}


(***************************************************************************)
(* The content of a string, decoded from its first character on.           *)
(***************************************************************************)
\* the character each one-letter escape stands for
EscapedChar ==
    (QUOTE :> 34) @@ (BACKSLASH :> 92) @@ (SLASH :> 47) @@ (98 :> 8) @@ (102 :> 12)
        @@ (110 :> 10) @@ (114 :> 13) @@ (116 :> 9)

\* the value of a hex digit: its place among 0..9 a..f or 0..9 A..F
HexDigitValue(c) ==
    LET lower == <<48, 49, 50, 51, 52, 53, 54, 55, 56, 57, 97, 98, 99, 100, 101, 102>>
        upper == <<48, 49, 50, 51, 52, 53, 54, 55, 56, 57, 65, 66, 67, 68, 69, 70>>
    IN  (CHOOSE k \in 1..16 : lower[k] = c \/ upper[k] = c) - 1

\* the code point XXXX of the escape \uXXXX that starts at byte i
EscapedCodePoint(in, i) ==
    HexDigitValue(ByteAt(in, i + 2)) * 4096 + HexDigitValue(ByteAt(in, i + 3)) * 256
        + HexDigitValue(ByteAt(in, i + 4)) * 16 + HexDigitValue(ByteAt(in, i + 5))

\* a code point up to U+FFFF in UTF-8
Utf8(c) ==
    IF c < 128 THEN <<c>>
    ELSE IF c < 2048 THEN <<192 + (c \div 64), 128 + (c % 64)>>
    ELSE <<224 + (c \div 4096), 128 + ((c \div 64) % 64), 128 + (c % 64)>>

\* in[i:e], a run of characters and complete valid escapes, with each escape
\* replaced by its character and every other byte copied
RECURSIVE Decoded(_, _, _)
Decoded(in, i, e) ==
    IF i >= e THEN <<>>
    ELSE IF ByteAt(in, i) # BACKSLASH THEN <<ByteAt(in, i)>> \o Decoded(in, i + 1, e)
    ELSE IF ByteAt(in, i + 1) = 117
        THEN Utf8(EscapedCodePoint(in, i)) \o Decoded(in, i + 6, e)
    ELSE <<EscapedChar[ByteAt(in, i + 1)]>> \o Decoded(in, i + 2, e)

\* the call scanned a well-formed single-quoted string: its content runs to a quote
WellFormedString ==
    /\ OpensString
    /\ ContentEnd < Len(pre.input)
    /\ ByteAt(pre.input, ContentEnd) = QUOTE

(***************************************************************************)
(* C13  Decoded string fidelity: the Value of the String token of a        *)
(* well-formed single-quoted string is its content decoded from the first  *)
(* character on: every escape replaced by its character, \uXXXX by the     *)
(* code point XXXX, every other byte copied; without escapes, the raw      *)
(* source slice.                                                           *)
(***************************************************************************)
C13_DecodedString ==
    WellFormedString =>
        /\ ret.Kind = "String"
        /\ retErr = Nil
        /\ ret.Value = Decoded(pre.input, TokenByte + 1, ContentEnd)
        /\ (\A i \in (TokenByte + 1)..(ContentEnd - 1) : ByteAt(pre.input, i) # BACKSLASH)
               => ret.Value = Slice(pre.input, TokenByte + 1, ContentEnd)


(***************************************************************************)
(* Block strings, read from the input alone.                               *)
(***************************************************************************)
\* the offset at which the block string body that starts at byte i ends: the
\* offset of the first """ that no backslash escapes, of a control character
\* that is no tab and no line terminator, or the input's length
RECURSIVE BlockRunEnd(_, _)
BlockRunEnd(in, i) ==
    IF i >= Len(in) THEN i
    ELSE IF i + 4 <= Len(in) /\ Slice(in, i, i + 4) = EscapedTripleQuote
        THEN BlockRunEnd(in, i + 4)
    ELSE IF i + 3 <= Len(in) /\ Slice(in, i, i + 3) = TripleQuote THEN i
    ELSE IF ByteAt(in, i) < 32 /\ ByteAt(in, i) \notin {TAB, LF, CR} THEN i
    ELSE BlockRunEnd(in, i + 1)

\* where the body of the block string opened at the token's start stops
BodyEnd == BlockRunEnd(pre.input, TokenByte + 3)

\* the call was a ReadToken that scanned a well-formed block string
WellFormedBlock ==
    /\ call = "ReadToken"
    /\ scanned
    /\ TokenByte + 3 <= Len(pre.input)
    /\ Slice(pre.input, TokenByte, TokenByte + 3) = TripleQuote
    /\ BodyEnd + 3 <= Len(pre.input)
    /\ Slice(pre.input, BodyEnd, BodyEnd + 3) = TripleQuote

\* the body in[i:e] with \r\n and \r replaced by \n and \""" by """
RECURSIVE RawBody(_, _, _)
RawBody(in, i, e) ==
    IF i >= e THEN <<>>
    ELSE IF i + 4 <= e /\ Slice(in, i, i + 4) = EscapedTripleQuote
        THEN TripleQuote \o RawBody(in, i + 4, e)
    ELSE IF ByteAt(in, i) = CR
        THEN <<LF>> \o RawBody(in, IF i + 1 < e /\ ByteAt(in, i + 1) = LF
                                   THEN i + 2 ELSE i + 1, e)
    ELSE <<ByteAt(in, i)>> \o RawBody(in, i + 1, e)

\* in[i:e] is well-formed UTF-8
RECURSIVE ValidUtf8(_, _, _)
ValidUtf8(in, i, e) ==
    IF i >= e THEN TRUE
    ELSE LET d == DecodeRune(in, i) IN
         (ByteAt(in, i) < 128 \/ d.w > 1) /\ i + d.w <= e /\ ValidUtf8(in, i + d.w, e)

\* no \uXXXX escape of in[i:e], a run of characters and complete valid escapes,
\* names a surrogate (U+D800 to U+DFFF)
RECURSIVE NoSurrogateEscape(_, _, _)
NoSurrogateEscape(in, i, e) ==
    IF i >= e THEN TRUE
    ELSE IF ByteAt(in, i) # BACKSLASH THEN NoSurrogateEscape(in, i + 1, e)
    ELSE IF ByteAt(in, i + 1) = 117
        THEN /\ EscapedCodePoint(in, i) \notin 55296..57343
             /\ NoSurrogateEscape(in, i + 6, e)
    ELSE NoSurrogateEscape(in, i + 2, e)

(***************************************************************************)
(* C14  Spans include the delimiters: the token of a well-formed string    *)
(* starts at the rune offset of its opening quote and ends just past its   *)
(* closing quote, the token of a well-formed block string starts at the    *)
(* first quote of its opening """ and ends just past its closing """; the  *)
(* Value is made of what lies between the delimiters, and the cursor is    *)
(* left just past the closing delimiter.                                   *)
(***************************************************************************)
C14_SpansIncludeDelimiters ==
    LET in == pre.input IN
    /\ WellFormedString =>
           /\ ret.Kind = "String"
           /\ ret.Start = RunesBetween(in, 0, TokenByte)
           /\ ret.End = RunesBetween(in, 0, ContentEnd + 1)
           /\ lexer.end = ContentEnd + 1
           /\ lexer.endRunes = ret.End
           /\ (ValidUtf8(in, TokenByte + 1, ContentEnd)
                   /\ NoSurrogateEscape(in, TokenByte + 1, ContentEnd))
                  => ret.Value = Decoded(in, TokenByte + 1, ContentEnd)
    /\ WellFormedBlock =>
           /\ ret.Kind = "BlockString"
           /\ ret.Start = RunesBetween(in, 0, TokenByte)
           /\ ret.End = RunesBetween(in, 0, BodyEnd + 3)
           /\ lexer.end = BodyEnd + 3
           /\ lexer.endRunes = ret.End
           /\ ValidUtf8(in, TokenByte + 3, BodyEnd)
                  => ret.Value = blockStringValue(RawBody(in, TokenByte + 3, BodyEnd))

\* a string with a two-byte character in it, read after a block string
C14_Witness ==
    /\ prevRead.valid
    /\ prevRead.tok.Kind = "BlockString"
    /\ WellFormedString
    /\ ret.Kind = "String"
    /\ ret.Start = prevRead.tok.End
    /\ ret.End - ret.Start < lexer.end - TokenByte


(***************************************************************************)
(* C15  Round trip: the Value of a Name, Int, Float or punctuator token    *)
(* is the input from the rune with offset Start up to the rune with        *)
(* offset End, whatever precedes the token.                                *)
(***************************************************************************)
SimpleKinds ==
    {"Name", "Int", "Float", "Bang", "Dollar", "Amp", "ParenL", "ParenR", "Spread",
     "Colon", "Equals", "At", "BracketL", "BracketR", "BraceL", "BraceR", "Pipe"}

C15_RoundTrip ==
    (ReadReturned /\ ret.Kind \in SimpleKinds) =>
        /\ ret.Start < ret.End
        /\ ret.Value = Slice(lexer.input, ByteOfRune(lexer.input, 0, ret.Start),
                             ByteOfRune(lexer.input, 0, ret.End))

\* an Int of two digits read after a character of more than one byte
C15_Witness ==
    /\ ReadReturned
    /\ ret.Kind = "Int"
    /\ ret.Start < ByteOfRune(lexer.input, 0, ret.Start)
    /\ ret.Value = <<49, 49>>


(***************************************************************************)
(* C16  Block string line normalization: a well-formed block string has    *)
(* the Value of the same block string with every line break of its body    *)
(* written as \n, and that Value is the block string value of the body     *)
(* with every \r\n and every \r replaced by \n, every \""" by """ and      *)
(* every other backslash kept.                                             *)
(***************************************************************************)
\* the body in[i:e] with \r\n and \r replaced by \n, nothing else changed
RECURSIVE WithLineFeeds(_, _, _)
WithLineFeeds(in, i, e) ==
    IF i >= e THEN <<>>
    ELSE IF ByteAt(in, i) = CR
        THEN <<LF>> \o WithLineFeeds(in, IF i + 1 < e /\ ByteAt(in, i + 1) = LF
                                         THEN i + 2 ELSE i + 1, e)
    ELSE <<ByteAt(in, i)>> \o WithLineFeeds(in, i + 1, e)

\* what the first ReadToken returns for the block string with body b
BlockStringOf(b) ==
    LET res == ReadToken(New(TripleQuote \o b \o TripleQuote))
    IN  <<res.tok.Kind, res.tok.Value, res.err, res.panic>>

C16_LineNormalization ==
    WellFormedBlock =>
        LET in == pre.input IN
        /\ ~panicked
        /\ <<ret.Kind, ret.Value, retErr, FALSE>> =
               BlockStringOf(WithLineFeeds(in, TokenByte + 3, BodyEnd))
        /\ ValidUtf8(in, TokenByte + 3, BodyEnd)
               => ret.Value = blockStringValue(RawBody(in, TokenByte + 3, BodyEnd))

\* a block string of two lines with \r\n between them
C16_Witness ==
    /\ WellFormedBlock
    /\ \E i \in (TokenByte + 3)..(BodyEnd - 2) :
           ByteAt(pre.input, i) = CR /\ ByteAt(pre.input, i + 1) = LF
    /\ ret.Kind = "BlockString"
    /\ ret.Value = <<97, LF, 97>>


(***************************************************************************)
(* C17  Scenario S3: the first token of "a\"b\u00e9" (12 bytes: quote, a, *)
(* backslash, quote, b, backslash, u, 0, 0, e, 9, quote).                  *)
(***************************************************************************)
\* the text a"b and U+00E9 in UTF-8
ValueS3 == <<97, QUOTE, 98, 195, 169>>

\* C17 as stated: a String token with Value a"b U+00E9, Start 0 and End 13
C17_ScenarioS3End13 ==
    (FirstRead /\ lexer.input = ScenarioS3) =>
        /\ ret.Kind = "String"
        /\ ret.Value = ValueS3
        /\ ret.Start = 0
        /\ ret.End = 13

\* C17 as amended: a String token with Value a"b U+00E9, Start 0 and End 12, the
\* number of runes of the input
C17_ScenarioS3 ==
    (FirstRead /\ lexer.input = ScenarioS3) =>
        /\ ret.Kind = "String"
        /\ retErr = Nil
        /\ ret.Value = ValueS3
        /\ ret.Start = 0
        /\ ret.End = 12
        /\ ret.End = RunesBetween(ScenarioS3, 0, Len(ScenarioS3))

\* the first token of S3 has been read
C17_Witness == FirstRead /\ lexer.input = ScenarioS3 /\ ret.Kind = "String"


(***************************************************************************)
(* C18  Lexer state invariant: no call reads the input outside its bounds, *)
(* and after every ReadToken or PeekToken 0 <= start <= end <= len(input), *)
(* startRunes <= endRunes, startRunes and endRunes are the numbers of      *)
(* runes before the bytes at start and at end, line >= 1 and               *)
(* lineStartRunes <= startRunes.                                           *)
(***************************************************************************)
StateInvariant(s) ==
    /\ 0 <= s.start
    /\ s.start <= s.end
    /\ s.end <= Len(s.input)
    /\ s.startRunes <= s.endRunes
    /\ s.startRunes = RunesBetween(s.input, 0, s.start)
    /\ s.endRunes = RunesBetween(s.input, 0, s.end)
    /\ s.line >= 1
    /\ s.lineStartRunes <= s.startRunes

C18_StateInvariant ==
    call \in {"ReadToken", "PeekToken"} => (~panicked /\ StateInvariant(lexer))


(***************************************************************************)
(* C19  No progress after a dispatch error.                                *)
(***************************************************************************)
\* the byte at offset p starts no token
StartsNoToken(in, p) ==
    /\ p < Len(in)
    /\ LET b == ByteAt(in, p) IN
        /\ b \notin NameStart \cup Digits \cup {MINUS, QUOTE, HASH}
        /\ b \notin {BANG, DOLLAR, AMP, PARENL, PARENR, COLON, EQUALS, ATSIGN,
                     BRACKETL, BRACKETR, BRACEL, BRACER, PIPE}
        /\ b = DOT => ~(p + 3 <= Len(in) /\ Slice(in, p, p + 3) = Spread3)

DispatchErrors ==
    {"Cannot contain the invalid character \"\\u%04d\"",
     "Unexpected single quote character ('), did you mean to use a double quote (\")?",
     "Cannot parse the unexpected character \"%s\"."}

\* the six position fields of a lexer
Position(s) == <<s.start, s.end, s.startRunes, s.endRunes, s.line, s.lineStartRunes>>

\* the position with the cursor of s taken as the start of the next token
AtCursor(s) == <<s.end, s.end, s.endRunes, s.endRunes, s.line, s.lineStartRunes>>

\* the call was a ReadToken whose token starts with a byte that starts none
FailedDispatch ==
    /\ call = "ReadToken"
    /\ scanned
    /\ StartsNoToken(pre.input, TokenByte)

\* the cursor is on the offending byte, as it was before that byte was read
Rewound ==
    /\ ~panicked
    /\ ret.Kind = "Invalid"
    /\ retErr.msg \in DispatchErrors
    /\ Position(lexer) = AtCursor(ws(pre))

\* C19: a ReadToken that meets a byte starting no token returns an Invalid
\* token and a dispatch error with the position fields as they were before
\* the byte was read; once a ReadToken has returned a dispatch error, every
\* ReadToken returns that token and error again, every PeekToken that token,
\* none of them EOF, and the position fields stay as they are
C19_NoProgressAfterDispatchError ==
    [][/\ FailedDispatch' => Rewound'
       /\ (lastRead.valid /\ lastRead.err.msg \in DispatchErrors
              /\ call' \in {"ReadToken", "PeekToken"}) =>
             /\ ~panicked'
             /\ ret' = lastRead.tok
             /\ ret'.Kind = "Invalid"
             /\ call' = "ReadToken" => retErr' = lastRead.err
             /\ Position(lexer') = Position(lexer)]_vars

\* a single quote after a name, met by two ReadToken calls in a row
C19_Witness ==
    /\ FailedDispatch
    /\ ByteAt(pre.input, TokenByte) = APOSTROPHE
    /\ TokenByte > 0
    /\ prevRead.valid
    /\ prevRead.err = retErr
    /\ prevRead.tok = ret


(***************************************************************************)
(* C20  Termination.                                                       *)
(***************************************************************************)
\* the number of '#' in in[a:b]
RECURSIVE HashCount(_, _, _)
HashCount(in, a, b) ==
    IF a >= b THEN 0
    ELSE (IF ByteAt(in, a) = HASH THEN 1 ELSE 0) + HashCount(in, a + 1, b)

\* a call run step by step ends as ReadToken ends on the lexer it started from
StepsAgree ==
    frame.step \in {"return", "panic"} =>
        LET res == ReadToken(pre) IN
        /\ lexer = res.s
        /\ ret = res.tok
        /\ retErr = res.err
        /\ panicked = res.panic

\* a call in progress ends
StepsEnd == (frame.pc # "idle") ~> (frame.pc \in {"idle", "panic"})

\* C20: every iteration of a loop moves the cursor forward, within the input;
\* ReadToken calls itself only with the cursor past where it stood when the
\* call before was made, a '#' consumed for each such call; and no call ends
\* without returning a token and an error
C20_Termination ==
    [][/\ frame'.step = "iterate" =>
              /\ lexer'.end > lexer.end
              /\ lexer'.end <= Len(lexer'.input)
       /\ frame'.step = "reenter" =>
              /\ lexer'.end > frame.entry
              /\ frame'.depth <= HashCount(lexer'.input, pre'.end, lexer'.end)
       /\ ~panicked']_vars

====
